---- MODULE Spec2Model ----
(***************************************************************************)
(* Model of the message pipeline of ai-research-companion:                 *)
(*   - the scheduler edge function  supabase/functions/send-scheduled      *)
(*   - the webhook edge function    supabase/functions/whatsapp-webhook    *)
(* Every `await` of the source is a step boundary: between two steps of    *)
(* one invocation any other invocation may run against the shared store.   *)
(***************************************************************************)
EXTENDS Integers, Sequences, FiniteSets, TLC

(***************************************************************************)
(* Bounds                                                                  *)
(***************************************************************************)
NumRows == 1
NumInvs == 2
MaxTime == 1

Rows == 1..NumRows
Invs == 1..NumInvs

\* SQL NULL of a timestamp / integer column; time is counted in hours
NoTime == -1

(***************************************************************************)
(* scheduled_messages rows as the operator's dashboard creates them:       *)
(* status 'pending', next_run_at = scheduled_for, recurrence columns by    *)
(* type.                                                                   *)
(***************************************************************************)
\* the recurrence columns of a row (part_005)
Rec(type, interval, endDate) ==
  [recurrence_type |-> type, recurrence_interval |-> interval, recurrence_end_date |-> endDate]

NewScheduledMessage(id, rec, hasTask, at, at0) ==
  [ id |-> id,
    phone_number |-> "p1",
    message_content |-> "message_content",
    task_prompt |-> hasTask,
    scheduled_for |-> at,
    status |-> "pending",
    sent_at |-> NoTime,
    updated_at |-> at0,
    ai_response |-> "NULL",
    model_used |-> "NULL",
    recurrence_type |-> rec.recurrence_type,
    recurrence_interval |-> rec.recurrence_interval,
    recurrence_end_date |-> rec.recurrence_end_date,
    next_run_at |-> at ]

VARIABLES
  clock,               \* wall clock (hours)
  scheduled_messages,  \* table scheduled_messages: row id -> row
  inv,                 \* scheduler invocations: locals and position
  outbox,              \* calls made to the outbound transport by the scheduler
  whatsapp_messages,   \* table whatsapp_messages (set of rows, `by` stands for the uuid)
  ai_usage,            \* table ai_usage, the one (provider, model, date) counter: 0 = no row
  env,                 \* Deno.env of the webhook function
  req,                 \* POST deliveries to the webhook and the responses they got
  task,                \* background processMessage tasks: locals and position
  wa_out,              \* calls made to the outbound transport by the webhook
  ai_calls,            \* executeAIRequest calls made by the webhook tasks
  subscriptions,       \* table subscriptions: the sender's row, "none" | "active" | "inactive"
  storeUp,             \* whether the store answers the webhook's statements or returns errors
  uniqueIndex,         \* whether the store enforces a unique whatsapp_messages.message_id
  router,              \* one executeAIRequest call: its configuration, provider calls, result
  chunker,             \* one splitWhatsAppMessage call: its locals and position
  handshake,           \* one GET request to the webhook and its response
  classifier           \* one classifyTaskIntent call: its arguments and result

\* the state of the single-function specifications
fvars == <<router, chunker, handshake, classifier>>

\* the state the scheduler's steps leave alone, the state the webhook's steps leave alone
wvars == <<env, req, task, wa_out, ai_calls, subscriptions, storeUp, uniqueIndex, fvars>>
svars == <<clock, scheduled_messages, inv, outbox, ai_usage, uniqueIndex, fvars>>

\* the tables, queues and requests of the two functions
tvars == <<clock, scheduled_messages, inv, outbox, whatsapp_messages, ai_usage,
           env, req, task, wa_out, ai_calls, subscriptions, storeUp, uniqueIndex>>

vars == <<clock, scheduled_messages, inv, outbox, whatsapp_messages, ai_usage,
          env, req, task, wa_out, ai_calls, subscriptions, storeUp, uniqueIndex,
          router, chunker, handshake, classifier>>

\* a single-function variable in a specification that does not exercise it
Unused == <<>>

\* the tables, queues and requests while a single function is exercised
NoTables ==
  /\ clock = 0
  /\ scheduled_messages = <<>>
  /\ inv = <<>>
  /\ outbox = {}
  /\ whatsapp_messages = {}
  /\ ai_usage = 0
  /\ env = [appSecret |-> "s1", configured |-> TRUE]
  /\ req = <<>>
  /\ task = <<>>
  /\ wa_out = {}
  /\ ai_calls = {}
  /\ subscriptions = "none"
  /\ storeUp = TRUE
  /\ uniqueIndex = FALSE

(***************************************************************************)
(* Store statements of the scheduler, as pure operators on rows            *)
(***************************************************************************)
\* .eq('status','pending').lte('scheduled_for', now)
DuePending(table, now) ==
  { r \in DOMAIN table : table[r].status = "pending" /\ table[r].scheduled_for <= now }

\* trigger update_scheduled_messages_updated_at: BEFORE UPDATE, updated_at = now()
Touch(row, now) == [row EXCEPT !.updated_at = now]

\* .update({ status: 'processing' }).eq('id', msg.id)
UpdateProcessing(row) == [row EXCEPT !.status = "processing"]

\* .update({ status:'sent', sent_at, ai_response, model_used }).eq('id', msg.id)
UpdateSent(row, now, msg, text, modelUsed) ==
  [row EXCEPT !.status = "sent",
              !.sent_at = now,
              !.ai_response = IF msg.task_prompt THEN text ELSE "NULL",
              !.model_used = modelUsed]

\* .update({ status: 'failed' }).eq('id', msg.id)
UpdateFailed(row) == [row EXCEPT !.status = "failed"]

\* the texts a row may carry as fixed content and the texts a provider may
\* generate; neither the form, the table nor the 800-token budget bounds their size
FixedContents == {"message_content", "long message_content"}
Generated == {"result.response", "long result.response"}

\* String.prototype.length of these texts
Length(text) ==
  IF text \in {"long message_content", "long result.response"} THEN 5000 ELSE 160

\* the provider asked for every row
NeedsProvider_Always(msg) == TRUE

\* line 292: if (msg.task_prompt)
NeedsProvider(msg) == msg.task_prompt

\* all orders in which the select may return a set of rows
Orderings(S) ==
  { s \in [1..Cardinality(S) -> S] : \A a, b \in 1..Cardinality(S) : a # b => s[a] # s[b] }

IdleInv ==
  [ pc |-> "idle", now |-> NoTime, pendingMessages |-> <<>>, i |-> 1,
    messageToSend |-> "NULL", modelUsed |-> "NULL", existing |-> NoTime,
    processed |-> 0, response |-> 0, calls |-> <<>> ]

\* the awaited calls an invocation has made inside its loop, in order:
\* <<"processing" | "ai" | "send" | "sent" | "insert" | "failed", row id>>
Called(l, call, row) == [l EXCEPT !.calls = Append(@, <<call, row.id>>)]

\* the row snapshot the loop of invocation k is at
Msg(k) == inv[k].pendingMessages[inv[k].i]

\* schedules the operator has created (ScheduledMessagesView handleCreate):
\* <<recurrence, task prompt or fixed content, scheduled_for>>
RowKinds ==
  << <<Rec("once", NoTime, NoTime), FALSE, 0>>,
     <<Rec("date_range", NoTime, 48), FALSE, 0>>,
     <<Rec("daily", NoTime, NoTime), TRUE, 0>>,
     <<Rec("once", NoTime, NoTime), TRUE, 1>>,
     <<Rec("weekly", NoTime, NoTime), FALSE, 0>>,
     <<Rec("date_range", NoTime, 12), FALSE, 0>>,
     <<Rec("every_x_hours", 6, NoTime), FALSE, 1>>,
     <<Rec("every_x_days", 3, NoTime), FALSE, 0>> >>

\* the table holds NumRows consecutive schedules of RowKinds, from any first one
KindOf(first, r) == RowKinds[((first + r - 2) % Len(RowKinds)) + 1]

InitSched ==
  /\ clock = 0
  /\ \E first \in 1..Len(RowKinds) :
       scheduled_messages =
         [r \in Rows |-> NewScheduledMessage(r, KindOf(first, r)[1], KindOf(first, r)[2],
                                             KindOf(first, r)[3], 0)]
  /\ inv = [k \in Invs |-> IdleInv]
  /\ outbox = {}
  /\ whatsapp_messages = {}
  /\ ai_usage = 0
  /\ env \in { [appSecret |-> "s1", configured |-> c] : c \in BOOLEAN }
  /\ req = <<>>
  /\ task = <<>>
  /\ wa_out = {}
  /\ ai_calls = {}
  /\ subscriptions = "none"
  /\ storeUp = TRUE
  /\ uniqueIndex = FALSE
  /\ router = Unused /\ chunker = Unused /\ handshake = Unused /\ classifier = Unused

(***************************************************************************)
(* send-scheduled: serve                                                   *)
(***************************************************************************)
\* new Date(): the clock may have advanced since it was last read
Now(t) == t \in clock..MaxTime /\ clock' = t

\* lines 231-252: select the due pending rows; 500 on a fetch error, 200 with
\* processed 0 when nothing is due (the two settings reads that follow change nothing)
Fetch(k) ==
  /\ inv[k].pc = "idle"
  /\ \E t \in 0..MaxTime :
       /\ Now(t)
       /\ \/ \E order \in Orderings(DuePending(scheduled_messages, t)) :
               inv' = [inv EXCEPT ![k] =
                         [@ EXCEPT !.now = t,
                                   !.pendingMessages =
                                      [j \in DOMAIN order |-> scheduled_messages[order[j]]],
                                   !.pc = IF order = <<>> THEN "done" ELSE "loop",
                                   !.response = IF order = <<>> THEN 200 ELSE 0]]
          \/ inv' = [inv EXCEPT ![k] = [@ EXCEPT !.now = t, !.pc = "done", !.response = 500]]
  /\ UNCHANGED <<scheduled_messages, outbox, whatsapp_messages, ai_usage, wvars>>

\* lines 282-289: mark the row processing, whatever its status is now; the
\* client returns a store error as a value, which is not read
MarkProcessing(k) ==
  /\ inv[k].pc = "loop"
  /\ inv[k].i <= Len(inv[k].pendingMessages)
  /\ \/ \E t \in 0..MaxTime :
          /\ Now(t)
          /\ scheduled_messages' =
               [scheduled_messages EXCEPT ![Msg(k).id] = Touch(UpdateProcessing(@), t)]
     \/ UNCHANGED <<clock, scheduled_messages>>
  /\ inv' = [inv EXCEPT ![k] =
               [Called(@, "processing", Msg(k))
                  EXCEPT !.pc = IF NeedsProvider(Msg(k)) THEN "ai" ELSE "send",
                         !.messageToSend = Msg(k).message_content,
                         !.modelUsed = "direct"]]
  /\ UNCHANGED <<outbox, whatsapp_messages, ai_usage, wvars>>

\* lines 292-300: executeAIRequest returns fresh text or throws
ExecuteAI(k) ==
  /\ inv[k].pc = "ai"
  /\ \/ \E response \in Generated :
          inv' = [inv EXCEPT ![k] =
                    [Called(@, "ai", Msg(k))
                       EXCEPT !.pc = "track", !.messageToSend = response,
                              !.modelUsed = "provider/model"]]
     \/ inv' = [inv EXCEPT ![k] = [Called(@, "ai", Msg(k)) EXCEPT !.pc = "catch"]]
  /\ UNCHANGED <<clock, scheduled_messages, outbox, whatsapp_messages, ai_usage, wvars>>

\* lines 188-194: trackUsage reads the counter row
TrackUsageRead(k) ==
  /\ inv[k].pc = "track"
  /\ inv' = [inv EXCEPT ![k] = [@ EXCEPT !.pc = "track_write", !.existing = ai_usage]]
  /\ UNCHANGED <<clock, scheduled_messages, outbox, whatsapp_messages, ai_usage, wvars>>

\* lines 196-214: trackUsage writes existing + 1, or inserts a row with 1
TrackUsageWrite(k) ==
  /\ inv[k].pc = "track_write"
  /\ ai_usage' = IF inv[k].existing > 0
                   THEN inv[k].existing + 1
                   ELSE IF ai_usage = 0 THEN 1 ELSE ai_usage
  /\ inv' = [inv EXCEPT ![k] = [@ EXCEPT !.pc = "send", !.existing = NoTime]]
  /\ UNCHANGED <<clock, scheduled_messages, outbox, whatsapp_messages, wvars>>

\* lines 306-316: hand the text to the transport; an error result throws.
\* The function reads its environment with non-null assertions and no test
\* (lines 223-227); env.configured = FALSE is WHATSAPP_ACCESS_TOKEN or
\* WHATSAPP_PHONE_NUMBER_ID unset, and the gateway then answers with an error.
Send(k) ==
  /\ inv[k].pc = "send"
  /\ \E ok \in IF env.configured THEN BOOLEAN ELSE {FALSE} :
       /\ outbox' = outbox \cup
            {[inv |-> k, row |-> Msg(k).id, to |-> Msg(k).phone_number,
              text |-> inv[k].messageToSend, ok |-> ok]}
       /\ inv' = [inv EXCEPT ![k] =
                    [Called(@, "send", Msg(k)) EXCEPT !.pc = IF ok THEN "sent_ok" ELSE "catch"]]
  /\ UNCHANGED <<clock, scheduled_messages, whatsapp_messages, ai_usage, wvars>>

\* lines 318-327: update as sent; a store error is not read
MarkSent(k) ==
  /\ inv[k].pc = "sent_ok"
  /\ \/ \E t \in 0..MaxTime :
          /\ Now(t)
          /\ scheduled_messages' =
               [scheduled_messages EXCEPT ![Msg(k).id] =
                  Touch(UpdateSent(@, t, Msg(k), inv[k].messageToSend, inv[k].modelUsed), t)]
     \/ UNCHANGED <<clock, scheduled_messages>>
  /\ inv' = [inv EXCEPT ![k] = [Called(@, "sent", Msg(k)) EXCEPT !.pc = "history"]]
  /\ UNCHANGED <<outbox, whatsapp_messages, ai_usage, wvars>>

\* lines 329-342: store the assistant turn (a store error is not read), count
\* the row
InsertHistory(k) ==
  /\ inv[k].pc = "history"
  /\ \/ whatsapp_messages' = whatsapp_messages \cup
          {[by |-> <<"scheduler", k, Msg(k).id>>, phone_number |-> Msg(k).phone_number,
            sender |-> "assistant", message_id |-> "NULL",
            message_content |-> inv[k].messageToSend,
            intent |-> IF Msg(k).task_prompt THEN "scheduled_task" ELSE "scheduled_message",
            processing_status |-> "sent"]}
     \/ UNCHANGED whatsapp_messages
  /\ inv' = [inv EXCEPT ![k] =
               [Called(@, "insert", Msg(k))
                  EXCEPT !.pc = "loop", !.i = @ + 1, !.processed = @ + 1]]
  /\ UNCHANGED <<clock, scheduled_messages, outbox, ai_usage, wvars>>

\* the catch block going on to the next row without writing the row's status
MarkFailed_Unrecorded(k) ==
  /\ inv[k].pc = "catch"
  /\ inv' = [inv EXCEPT ![k] = [@ EXCEPT !.pc = "loop", !.i = @ + 1]]
  /\ UNCHANGED <<clock, scheduled_messages, outbox, whatsapp_messages, ai_usage, wvars>>

\* lines 344-351: the row's catch block; a store error is not read
MarkFailed(k) ==
  /\ inv[k].pc = "catch"
  /\ \/ \E t \in 0..MaxTime :
          /\ Now(t)
          /\ scheduled_messages' =
               [scheduled_messages EXCEPT ![Msg(k).id] = Touch(UpdateFailed(@), t)]
     \/ UNCHANGED <<clock, scheduled_messages>>
  /\ inv' = [inv EXCEPT ![k] =
               [Called(@, "failed", Msg(k)) EXCEPT !.pc = "loop", !.i = @ + 1]]
  /\ UNCHANGED <<outbox, whatsapp_messages, ai_usage, wvars>>

\* lines 354-357: the loop is over
Respond(k) ==
  /\ inv[k].pc = "loop"
  /\ inv[k].i > Len(inv[k].pendingMessages)
  /\ inv' = [inv EXCEPT ![k] = [@ EXCEPT !.pc = "done", !.response = 200]]
  /\ UNCHANGED <<clock, scheduled_messages, outbox, whatsapp_messages, ai_usage, wvars>>

NextSched ==
  \/ \E k \in Invs : Fetch(k)
  \/ \E k \in Invs : MarkProcessing(k)
  \/ \E k \in Invs : ExecuteAI(k)
  \/ \E k \in Invs : TrackUsageRead(k)
  \/ \E k \in Invs : TrackUsageWrite(k)
  \/ \E k \in Invs : Send(k)
  \/ \E k \in Invs : MarkSent(k)
  \/ \E k \in Invs : InsertHistory(k)
  \/ \E k \in Invs : MarkFailed(k)
  \/ \E k \in Invs : Respond(k)

SpecSched == InitSched /\ [][NextSched]_vars

(***************************************************************************)
(* send-scheduled: one invocation over a batch of due rows                 *)
(***************************************************************************)
BatchRows == 2

\* due schedules the operator has created: <<recurrence, task prompt or fixed
\* content, message_content>>; a task row's content is the "[AI Task] ..." label
BatchKinds ==
  { <<Rec("once", NoTime, NoTime), FALSE, "message_content">>,
    <<Rec("once", NoTime, NoTime), FALSE, "long message_content">>,
    <<Rec("daily", NoTime, NoTime), TRUE, "message_content">> }

InitBatch ==
  /\ clock = 0
  /\ \E kind \in [1..BatchRows -> BatchKinds] :
       scheduled_messages =
         [r \in 1..BatchRows |->
            [NewScheduledMessage(r, kind[r][1], kind[r][2], 0, 0)
               EXCEPT !.message_content = kind[r][3]]]
  /\ inv = <<IdleInv>>
  /\ outbox = {}
  /\ whatsapp_messages = {}
  /\ ai_usage = 0
  /\ env = [appSecret |-> "s1", configured |-> TRUE]
  /\ req = <<>>
  /\ task = <<>>
  /\ wa_out = {}
  /\ ai_calls = {}
  /\ subscriptions = "none"
  /\ storeUp = TRUE
  /\ uniqueIndex = FALSE
  /\ router = Unused /\ chunker = Unused /\ handshake = Unused /\ classifier = Unused

NextBatch ==
  \/ \E k \in DOMAIN inv : Fetch(k)
  \/ \E k \in DOMAIN inv : MarkProcessing(k)
  \/ \E k \in DOMAIN inv : ExecuteAI(k)
  \/ \E k \in DOMAIN inv : TrackUsageRead(k)
  \/ \E k \in DOMAIN inv : TrackUsageWrite(k)
  \/ \E k \in DOMAIN inv : Send(k)
  \/ \E k \in DOMAIN inv : MarkSent(k)
  \/ \E k \in DOMAIN inv : InsertHistory(k)
  \/ \E k \in DOMAIN inv : MarkFailed(k)
  \/ \E k \in DOMAIN inv : Respond(k)

SpecBatch == InitBatch /\ [][NextBatch]_vars

(***************************************************************************)
(* whatsapp-webhook                                                        *)
(***************************************************************************)
MaxDeliveries == 2
Deliveries == 1..MaxDeliveries

\* an unset environment variable / a null header
NoSecret == "NULL"

\* raw request bodies the gateway (or anyone else) may POST
RawBodies ==
  {"hello", "subscribe", "unsubscribe", "stop", "latest", "image", "nofrom", "statuses",
   "nomessages", "notjson"}

\* JSON.parse and the field extraction of processMessage, lines 378-400:
\* msg.from, msg.text?.body || msg.caption || '' (a list of words), msg.id
Payload(raw) ==
  CASE raw = "hello" ->
         [json |-> TRUE, statuses |-> FALSE, messages |-> 1, from |-> "p1",
          text |-> <<"hello", "there">>, id |-> "m1"]
    [] raw = "subscribe" ->
         [json |-> TRUE, statuses |-> FALSE, messages |-> 1, from |-> "p1",
          text |-> <<"Subscribe">>, id |-> "m2"]
    [] raw = "stop" ->
         [json |-> TRUE, statuses |-> FALSE, messages |-> 1, from |-> "p1",
          text |-> <<"STOP">>, id |-> "m3"]
    [] raw = "unsubscribe" ->
         [json |-> TRUE, statuses |-> FALSE, messages |-> 1, from |-> "p1",
          text |-> <<"unsubscribe">>, id |-> "m7"]
    [] raw = "latest" ->
         [json |-> TRUE, statuses |-> FALSE, messages |-> 1, from |-> "p1",
          text |-> <<"latest", "news">>, id |-> "m4"]
    [] raw = "image" ->
         [json |-> TRUE, statuses |-> FALSE, messages |-> 1, from |-> "p1",
          text |-> <<>>, id |-> "m5"]
    [] raw = "nofrom" ->
         [json |-> TRUE, statuses |-> FALSE, messages |-> 1, from |-> "",
          text |-> <<"hello">>, id |-> "m6"]
    [] raw = "statuses" ->
         [json |-> TRUE, statuses |-> TRUE, messages |-> 0, from |-> "",
          text |-> <<>>, id |-> ""]
    [] raw = "nomessages" ->
         [json |-> TRUE, statuses |-> FALSE, messages |-> 0, from |-> "",
          text |-> <<>>, id |-> ""]
    [] OTHER ->
         [json |-> FALSE, statuses |-> FALSE, messages |-> 0, from |-> "",
          text |-> <<>>, id |-> ""]

(***************************************************************************)
(* verifyWebhookSignature.  A header is a list of tokens: the literal      *)
(* "sha256=", a hex digest, or other characters.  HMAC-SHA256 is a keyed   *)
(* hash without collisions: the digest names its key and its message.      *)
(***************************************************************************)
Sep == [tok |-> "sha256=", key |-> "", of |-> ""]
Junk == [tok |-> "x", key |-> "", of |-> ""]
Hmac(key, payload) == [tok |-> "hex", key |-> key, of |-> payload]

\* String.prototype.split("sha256="): the pieces between the separators
RECURSIVE Split(_, _)
Split(header, piece) ==
  IF header = <<>> THEN <<piece>>
  ELSE IF Head(header) = Sep THEN <<piece>> \o Split(Tail(header), <<>>)
  ELSE Split(Tail(header), Append(piece, Head(header)))

\* lines 91-116
verifyWebhookSignature(payload, signature, appSecret) ==
  IF signature = <<>> THEN FALSE                       \* !signature (null or "")
  ELSE LET pieces == Split(signature, <<>>) IN
       IF Len(pieces) < 2 \/ pieces[2] = <<>> THEN FALSE   \* !signatureHash
       ELSE pieces[2] = <<Hmac(appSecret, payload)>>   \* computedHash === signatureHash

\* X-Hub-Signature-256 headers a sender may supply with a body: none, the
\* gateway's, and (tried on one body) forged or malformed ones
Signatures(raw) ==
  { <<>>, <<Sep, Hmac("s1", raw)>> } \cup
  ( IF raw # "hello" THEN {}
    ELSE { <<Sep, Hmac("s2", raw)>>,
           <<Sep, Hmac("s1", "other")>>,
           <<Hmac("s1", raw)>>,
           <<Sep>>,
           <<Junk, Sep, Hmac("s1", raw)>>,
           <<Sep, Hmac("s1", raw), Sep, Junk>>,
           <<Sep, Hmac("s1", raw), Junk>> } )

\* the status with a missing environment variable answered as a server error
PostResponse_500OnMissingEnv(e, raw, signature) ==
  IF e.appSecret = NoSecret THEN 500
  ELSE IF ~verifyWebhookSignature(raw, signature, e.appSecret) THEN 401
  ELSE IF ~Payload(raw).json THEN 200
  ELSE IF ~e.configured THEN 500
  ELSE 200

\* serve, POST, lines 630-710: the status the delivery is answered with
PostResponse(e, raw, signature) ==
  IF e.appSecret = NoSecret THEN 200
  ELSE IF ~verifyWebhookSignature(raw, signature, e.appSecret) THEN 401
  ELSE 200

\* serve, POST, lines 634-688: whether processMessage is started
Spawns(e, raw, signature) ==
  /\ e.appSecret # NoSecret
  /\ verifyWebhookSignature(raw, signature, e.appSecret)
  /\ Payload(raw).json
  /\ e.configured

(***************************************************************************)
(* classifyTaskIntent, lines 714-752, on a text given as its words         *)
(***************************************************************************)
\* String.prototype.toLowerCase on a word
Lower(w) ==
  CASE w = "STOP" -> "stop"
    [] w = "Subscribe" -> "subscribe"
    [] w = "Can" -> "can"
    [] OTHER -> w

toLowerCase(text) == [j \in DOMAIN text |-> Lower(text[j])]

\* the words that hold a keyword inside them
InsideWord ==
  { <<"unsubscribe", "subscribe">>, <<"updates", "update">>, <<"know", "now">>,
    <<"planet", "plan">>, <<"planning", "plan">>, <<"itinerary?", "itinerary">> }

\* lower.includes(keyword): a one-word keyword inside any word of the text, or
\* the words of a phrase in a row
includes(lower, keyword) ==
  \E j \in DOMAIN lower :
    /\ j + Len(keyword) - 1 <= Len(lower)
    /\ \A n \in DOMAIN keyword :
         \/ lower[j + n - 1] = keyword[n]
         \/ Len(keyword) = 1 /\ <<lower[j], keyword[1]>> \in InsideWord

\* the domain heuristics tested before the administrative intents
classifyTaskIntent_DomainFirst(message) ==
  LET lower == toLowerCase(message)
      has(w) == includes(lower, <<w>>)
      phrase(p) == includes(lower, p)
  IN
  IF \/ has("hotel") \/ has("restaurant") \/ has("weather")
     \/ has("current") \/ has("today") \/ has("now")
     \/ phrase(<<"search", "for">>) \/ phrase(<<"find", "me">>)
     \/ phrase(<<"where", "can", "i">>)
    THEN "web_search"
  ELSE IF \/ has("plan") \/ has("itinerary") \/ has("schedule")
          \/ (phrase(<<"create", "a">>) /\ (has("trip") \/ has("roadmap")))
          \/ phrase(<<"step", "by", "step">>)
    THEN "planning"
  ELSE IF \/ has("calculate") \/ has("solve") \/ has("analyze") \/ has("compare")
          \/ (has("why") /\ has("how"))
          \/ (has("explain") /\ has("detail"))
    THEN "reasoning"
  ELSE IF has("subscribe") \/ phrase(<<"sign", "up">>) \/ lower = <<"3">> THEN "subscribe"
  ELSE IF has("unsubscribe") \/ has("stop") \/ has("cancel") THEN "unsubscribe"
  ELSE IF has("latest") \/ has("update") \/ has("news") \/ lower = <<"1">>
    THEN "request_update"
  ELSE "general_question"

\* the unsubscribe keywords tested before the subscribe keywords
classifyTaskIntent_UnsubscribeFirst(message) ==
  LET lower == toLowerCase(message)
      has(w) == includes(lower, <<w>>)
      phrase(p) == includes(lower, p)
  IN
  IF has("unsubscribe") \/ has("stop") \/ has("cancel") THEN "unsubscribe"
  ELSE IF has("subscribe") \/ phrase(<<"sign", "up">>) \/ lower = <<"3">> THEN "subscribe"
  ELSE IF has("latest") \/ has("update") \/ has("news") \/ lower = <<"1">>
    THEN "request_update"
  ELSE IF \/ has("hotel") \/ has("restaurant") \/ has("weather")
          \/ has("current") \/ has("today") \/ has("now")
          \/ phrase(<<"search", "for">>) \/ phrase(<<"find", "me">>)
          \/ phrase(<<"where", "can", "i">>)
    THEN "web_search"
  ELSE IF \/ has("plan") \/ has("itinerary") \/ has("schedule")
          \/ (phrase(<<"create", "a">>) /\ (has("trip") \/ has("roadmap")))
          \/ phrase(<<"step", "by", "step">>)
    THEN "planning"
  ELSE IF \/ has("calculate") \/ has("solve") \/ has("analyze") \/ has("compare")
          \/ (has("why") /\ has("how"))
          \/ (has("explain") /\ has("detail"))
    THEN "reasoning"
  ELSE "general_question"

\* lines 714-752 (the history parameter is never read)
classifyTaskIntent(message) ==
  LET lower == toLowerCase(message)
      has(w) == includes(lower, <<w>>)
      phrase(p) == includes(lower, p)
  IN
  IF has("subscribe") \/ phrase(<<"sign", "up">>) \/ lower = <<"3">> THEN "subscribe"
  ELSE IF has("unsubscribe") \/ has("stop") \/ has("cancel") THEN "unsubscribe"
  ELSE IF has("latest") \/ has("update") \/ has("news") \/ lower = <<"1">>
    THEN "request_update"
  ELSE IF \/ has("hotel") \/ has("restaurant") \/ has("weather")
          \/ has("current") \/ has("today") \/ has("now")
          \/ phrase(<<"search", "for">>) \/ phrase(<<"find", "me">>)
          \/ phrase(<<"where", "can", "i">>)
    THEN "web_search"
  ELSE IF \/ has("plan") \/ has("itinerary") \/ has("schedule")
          \/ (phrase(<<"create", "a">>) /\ (has("trip") \/ has("roadmap")))
          \/ phrase(<<"step", "by", "step">>)
    THEN "planning"
  ELSE IF \/ has("calculate") \/ has("solve") \/ has("analyze") \/ has("compare")
          \/ (has("why") /\ has("how"))
          \/ (has("explain") /\ has("detail"))
    THEN "reasoning"
  ELSE "general_question"

\* whatsapp_messages.message_id carries no UNIQUE constraint (part_007 line 8)
MessageIdUnique == FALSE

\* isDuplicateMessage, lines 153-163: no id, no lookup; a failed select is "no"
isDuplicateMessage(table, messageId, selectOk) ==
  /\ messageId # ""
  /\ selectOk
  /\ \E m \in table : m.message_id = messageId

\* what executeAIRequest may hand back: always a text, never an exception
AIResponses == {"answer", "long answer", "apology"}

\* splitWhatsAppMessage(aiResponse).length for the replies above
PartsOf(response) == IF response = "long answer" THEN 2 ELSE 1

NoTask ==
  [pc |-> "none", dup |-> FALSE, insertError |-> "NULL", intent |-> "NULL",
   aiResponse |-> "NULL", i |-> 0, delays |-> 0]

\* the fields of the message task d is processing
In(d) == Payload(req[d].body)

InitWebhook ==
  /\ env \in [appSecret : {NoSecret, "s1"}, configured : BOOLEAN]
  /\ req = [d \in Deliveries |-> [body |-> "NULL", signature |-> <<>>, status |-> 0]]
  /\ task = [d \in Deliveries |-> NoTask]
  /\ wa_out = {}
  /\ ai_calls = {}
  /\ subscriptions = "none"
  /\ storeUp \in BOOLEAN
  /\ uniqueIndex = MessageIdUnique
  /\ whatsapp_messages = {}
  /\ clock = 0
  /\ scheduled_messages = <<>>
  /\ inv = <<>>
  /\ router = Unused /\ chunker = Unused /\ handshake = Unused /\ classifier = Unused
  /\ outbox = {}
  /\ ai_usage = 0

\* serve, POST: answer the delivery; start processMessage, which runs to its
\* first await (the duplicate lookup) or to one of its early returns
Deliver(d) ==
  /\ req[d].status = 0
  /\ \A d0 \in Deliveries : d0 < d => req[d0].status # 0
  /\ \E raw \in RawBodies : \E signature \in Signatures(raw) :
       /\ req' = [req EXCEPT ![d] =
                    [body |-> raw, signature |-> signature,
                     status |-> PostResponse(env, raw, signature)]]
       /\ task' = [task EXCEPT ![d] =
                     IF ~Spawns(env, raw, signature) THEN NoTask
                     ELSE IF \/ Payload(raw).statuses
                             \/ Payload(raw).messages = 0
                             \/ Payload(raw).from = ""
                             \/ Payload(raw).text = <<>>
                       THEN [NoTask EXCEPT !.pc = "done"]
                       ELSE [NoTask EXCEPT !.pc = "dedup"]]
  /\ UNCHANGED <<whatsapp_messages, wa_out, ai_calls, subscriptions, env, storeUp, svars>>

\* lines 409-413: the duplicate lookup
CheckDuplicate(d) ==
  /\ task[d].pc = "dedup"
  /\ LET selectOk == storeUp IN
       task' = [task EXCEPT ![d] =
                  IF isDuplicateMessage(whatsapp_messages, In(d).id, selectOk)
                    THEN [@ EXCEPT !.pc = "done", !.dup = TRUE]
                    ELSE [@ EXCEPT !.pc = "insert"]]
  /\ UNCHANGED <<whatsapp_messages, req, wa_out, ai_calls, subscriptions, env, storeUp, svars>>

\* the duplicate-key error logged like any other and processing carried on
IsDuplicateKey_Ignored(insertError) == FALSE

\* line 431: insertError.code === '23505'
IsDuplicateKey(insertError) == insertError = "23505"

\* lines 415-435: store the user turn; only a duplicate-key error stops the task
InsertUserMessage(d) ==
  /\ task[d].pc = "insert"
  /\ LET insertError ==
           IF ~storeUp THEN "other"
           ELSE IF uniqueIndex /\ \E m \in whatsapp_messages : m.message_id = In(d).id
             THEN "23505"
           ELSE "NULL"
     IN
       /\ whatsapp_messages' =
            IF insertError = "NULL"
              THEN whatsapp_messages \cup
                     {[by |-> <<"webhook", d, 0>>, phone_number |-> In(d).from,
                       sender |-> "user", message_id |-> In(d).id,
                       message_content |-> "text", intent |-> "NULL",
                       processing_status |-> "processing"]}
              ELSE whatsapp_messages
       /\ task' = [task EXCEPT ![d] =
                     IF IsDuplicateKey(insertError)
                       THEN [@ EXCEPT !.pc = "done", !.dup = TRUE, !.insertError = insertError]
                       ELSE [@ EXCEPT !.pc = "handle", !.insertError = insertError,
                                      !.intent = classifyTaskIntent(In(d).text)]]
  /\ UNCHANGED <<req, wa_out, ai_calls, subscriptions, env, storeUp, svars>>

\* lines 437-541: read history, settings and provider configuration (reads that
\* change nothing), classify, and make the reply from the subscription tables or
\* from the provider
HandleIntent(d) ==
  /\ task[d].pc = "handle"
  /\ \/ /\ task[d].intent = "subscribe"
        /\ LET ok == storeUp IN
             /\ subscriptions' = IF ok THEN "active" ELSE subscriptions
             /\ task' = [task EXCEPT ![d] =
                           [@ EXCEPT !.pc = "complete",
                                     !.aiResponse = IF ok THEN "subscribed"
                                                    ELSE "subscription failed"]]
        /\ UNCHANGED ai_calls
     \/ /\ task[d].intent = "unsubscribe"
        /\ LET ok == storeUp IN
             /\ subscriptions' =
                  IF ok /\ subscriptions # "none" THEN "inactive" ELSE subscriptions
             /\ task' = [task EXCEPT ![d] =
                           [@ EXCEPT !.pc = "complete",
                                     !.aiResponse = IF ok THEN "unsubscribed"
                                                    ELSE "unsubscribe failed"]]
        /\ UNCHANGED ai_calls
     \/ /\ task[d].intent = "request_update"
        /\ task' = [task EXCEPT ![d] =
                      [@ EXCEPT !.pc = "complete", !.aiResponse = "updates"]]
        /\ UNCHANGED <<ai_calls, subscriptions>>
     \/ /\ task[d].intent \notin {"subscribe", "unsubscribe", "request_update"}
        /\ \E response \in AIResponses :
             task' = [task EXCEPT ![d] =
                        [@ EXCEPT !.pc = "complete", !.aiResponse = response]]
        /\ ai_calls' = ai_calls \cup {d}
        /\ UNCHANGED subscriptions
  /\ UNCHANGED <<whatsapp_messages, req, wa_out, env, storeUp, svars>>

\* lines 550-551: updateProcessingStatus, every row with this message id
MarkCompleted(d) ==
  /\ task[d].pc = "complete"
  /\ whatsapp_messages' =
       { IF storeUp /\ In(d).id # "" /\ m.message_id = In(d).id
           THEN [m EXCEPT !.processing_status = "completed"] ELSE m
         : m \in whatsapp_messages }
  /\ task' = [task EXCEPT ![d] = [@ EXCEPT !.pc = "store"]]
  /\ UNCHANGED <<req, wa_out, ai_calls, subscriptions, env, storeUp, svars>>

\* lines 553-570: store the assistant turn; an error is logged and ignored
StoreReply(d) ==
  /\ task[d].pc = "store"
  /\ LET insertOk == storeUp IN
       whatsapp_messages' =
         IF insertOk
           THEN whatsapp_messages \cup
                  {[by |-> <<"webhook", d, 1>>, phone_number |-> In(d).from,
                    sender |-> "assistant", message_id |-> "NULL",
                    message_content |-> task[d].aiResponse, intent |-> task[d].intent,
                    processing_status |-> "sent"]}
           ELSE whatsapp_messages
  /\ task' = [task EXCEPT ![d] = [@ EXCEPT !.pc = "send", !.i = 0]]
  /\ UNCHANGED <<req, wa_out, ai_calls, subscriptions, env, storeUp, svars>>

\* the next part sent without the pause
AfterSend_NoDelay(i, parts) == IF i < parts - 1 THEN "send" ELSE "done"

\* lines 582-584: if (i < messageParts.length - 1) await the 300 ms timer
AfterSend(i, parts) == IF i < parts - 1 THEN "delay" ELSE "done"

\* lines 572-581: send part i and wait for the call to return (i counts the
\* parts sent); the result is only logged
SendPart(d) ==
  /\ task[d].pc = "send"
  /\ wa_out' = wa_out \cup {[task |-> d, to |-> In(d).from, part |-> task[d].i]}
  /\ task' = [task EXCEPT ![d] =
                [@ EXCEPT !.i = @ + 1,
                          !.pc = AfterSend(task[d].i, PartsOf(task[d].aiResponse))]]
  /\ UNCHANGED <<whatsapp_messages, req, ai_calls, subscriptions, env, storeUp, svars>>

\* lines 582-584: the timer has fired
InterPartDelay(d) ==
  /\ task[d].pc = "delay"
  /\ task' = [task EXCEPT ![d] = [@ EXCEPT !.pc = "send", !.delays = @ + 1]]
  /\ UNCHANGED <<whatsapp_messages, req, wa_out, ai_calls, subscriptions, env, storeUp, svars>>

NextWebhook ==
  \/ \E d \in Deliveries : Deliver(d)
  \/ \E d \in Deliveries : CheckDuplicate(d)
  \/ \E d \in Deliveries : InsertUserMessage(d)
  \/ \E d \in Deliveries : HandleIntent(d)
  \/ \E d \in Deliveries : MarkCompleted(d)
  \/ \E d \in Deliveries : StoreReply(d)
  \/ \E d \in Deliveries : SendPart(d)
  \/ \E d \in Deliveries : InterPartDelay(d)

SpecWebhook == InitWebhook /\ [][NextWebhook]_vars

(***************************************************************************)
(* whatsapp-webhook against a store that backs the deduplication with a    *)
(* unique index on whatsapp_messages.message_id, as the design asks for    *)
(* (the migrations create none).                                           *)
(***************************************************************************)
InitDedup ==
  /\ env = [appSecret |-> "s1", configured |-> TRUE]
  /\ req = [d \in Deliveries |-> [body |-> "NULL", signature |-> <<>>, status |-> 0]]
  /\ task = [d \in Deliveries |-> NoTask]
  /\ wa_out = {}
  /\ ai_calls = {}
  /\ subscriptions = "none"
  /\ storeUp = TRUE
  /\ uniqueIndex = TRUE
  /\ whatsapp_messages = {}
  /\ clock = 0
  /\ scheduled_messages = <<>>
  /\ inv = <<>>
  /\ router = Unused /\ chunker = Unused /\ handshake = Unused /\ classifier = Unused
  /\ outbox = {}
  /\ ai_usage = 0

SpecDedup == InitDedup /\ [][NextWebhook]_vars

(***************************************************************************)
(* executeAIRequest of the two functions, one call at a time.  Each fetch  *)
(* to a provider is a step; its outcome is the HTTP status, or the abort   *)
(* of the call's timer.                                                    *)
(***************************************************************************)
AIProvider == {"lovable", "openrouter", "openai", "anthropic", "gemini"}

\* no fallback_provider in the setting
NoProvider == "NULL"

\* the timer of the AbortController fired: fetch rejects with an AbortError
Aborted == 0

\* what a fetch to a provider may end with
Outcomes == {200, 401, 402, 429, 500, 503, 504, Aborted}

\* the statuses the webhook retries on (line 312)
RetriedStatuses == {429, 503, 504}

\* the provider's wire format: Anthropic and Gemini have their own branch
OpenAICompatible(provider) == provider \in {"lovable", "openrouter", "openai"}

\* the texts executeAIRequest of the webhook returns (their emoji left out)
KeyNotConfigured == "API key not configured. Please add your API key in Settings."
RateLimited == "Rate limit reached. Please try again shortly."
CreditsExhausted == "API credits exhausted. Please check your account."
InvalidKey == "Invalid API key. Please check your settings."
TimedOut == "Request timed out. Please try again."
GenericError == "An error occurred. Please try again."

\* the provider's completion text (or 'No response generated.')
Completion == "completion"

\* the upstream error body (response.text()) and the exception's message
ErrorText == "errorText"
ErrorMessage == "String(error)"

\* the setting_value of ai_provider rows an operator may have stored, with
\* api keys present (TRUE) or not
ProviderConfigs ==
  [provider : AIProvider, api_key : BOOLEAN,
   fallback_provider : {NoProvider, "lovable", "openai"}, fallback_api_key : BOOLEAN]

\* one provider call: which configuration it used and how it ended
ProviderCall(target, provider, maxTokens, status) ==
  [target |-> target, provider |-> provider, max_tokens |-> maxTokens, status |-> status]

NewRequest(fn, config, maxTokens) ==
  [fn |-> fn, config |-> config, maxTokens |-> maxTokens, calls |-> <<>>, pc |-> "first",
   response |-> "NULL", logged |-> {}, sent |-> "NULL", stored |-> "NULL"]

\* the webhook asks for 800 tokens for planning and reasoning, 500 otherwise
\* (line 534); the scheduler always asks for 800 (line 298)
InitAI ==
  /\ NoTables
  /\ router \in { NewRequest("webhook", c, m) : c \in ProviderConfigs, m \in {500, 800} }
                \cup { NewRequest("scheduler", c, 800) : c \in ProviderConfigs }
  /\ chunker = Unused /\ handshake = Unused /\ classifier = Unused

\* the upstream error body returned as the reply
WebhookResult_ForwardsErrorText(provider, status) ==
  IF status = 200 THEN Completion ELSE ErrorText

\* whatsapp-webhook lines 239-243, 273-277, 329-357: the text returned for the
\* last response of the provider
WebhookResult(provider, status) ==
  IF status = 200 THEN Completion
  ELSE IF status = Aborted THEN TimedOut              \* String(error).includes('abort')
  ELSE IF ~OpenAICompatible(provider) THEN GenericError   \* throw new Error(...), line 242, 276
  ELSE IF status = 429 THEN RateLimited
  ELSE IF status = 402 THEN CreditsExhausted
  ELSE IF status = 401 THEN InvalidKey
  ELSE GenericError

\* what a failed call writes to the console
ConsoleOf(status) ==
  IF status = 200 THEN {} ELSE IF status = Aborted THEN {ErrorMessage}
  ELSE {ErrorText, ErrorMessage}

\* whatsapp-webhook lines 209-310: the key check and the first fetch
WebhookFirstCall ==
  /\ router.fn = "webhook" /\ router.pc = "first"
  /\ LET c == router.config IN
       IF ~c.api_key /\ c.provider # "lovable"
         THEN router' = [router EXCEPT !.pc = "returned", !.response = KeyNotConfigured]
         ELSE \E status \in Outcomes :
                LET retry == OpenAICompatible(c.provider) /\ status \in RetriedStatuses IN
                router' = [router EXCEPT
                   !.calls = Append(@, ProviderCall("primary", c.provider,
                                                    router.maxTokens, status)),
                   !.pc = IF retry THEN "retry" ELSE "returned",
                   !.logged = IF retry THEN @ ELSE @ \cup ConsoleOf(status),
                   !.response = IF retry THEN @ ELSE WebhookResult(c.provider, status)]
  /\ UNCHANGED <<tvars, chunker, handshake, classifier>>

\* whatsapp-webhook lines 312-349: the second fetch, max_tokens Math.min(maxTokens, 400)
WebhookRetry ==
  /\ router.fn = "webhook" /\ router.pc = "retry"
  /\ \E status \in Outcomes :
       router' = [router EXCEPT
          !.calls = Append(@, ProviderCall("primary", router.config.provider,
                                           IF router.maxTokens < 400 THEN router.maxTokens
                                           ELSE 400, status)),
          !.pc = "returned",
          !.logged = @ \cup ConsoleOf(status),
          !.response = WebhookResult(router.config.provider, status)]
  /\ UNCHANGED <<tvars, chunker, handshake, classifier>>

\* whatsapp-webhook lines 539-585: the text is stored as the reply and sent
WebhookReply ==
  /\ router.fn = "webhook" /\ router.pc = "returned"
  /\ router' = [router EXCEPT !.pc = "done", !.stored = router.response,
                              !.sent = router.response]
  /\ UNCHANGED <<tvars, chunker, handshake, classifier>>

\* send-scheduled lines 36-156, useFallback = false: any failure goes to the
\* catch block, which calls the fallback if one is configured and rethrows if not
SchedulerFirstCall ==
  /\ router.fn = "scheduler" /\ router.pc = "first"
  /\ LET c == router.config
         caught == IF c.fallback_provider # NoProvider THEN "fallback" ELSE "thrown"
     IN
       IF ~c.api_key /\ c.provider # "lovable"
         THEN router' = [router EXCEPT !.pc = caught, !.logged = @ \cup {ErrorMessage}]
         ELSE \E status \in Outcomes :
                router' = [router EXCEPT
                   !.calls = Append(@, ProviderCall("primary", c.provider,
                                                    router.maxTokens, status)),
                   !.pc = IF status = 200 THEN "returned" ELSE caught,
                   !.logged = IF status = 200 THEN @ ELSE @ \cup {ErrorMessage},
                   !.response = IF status = 200 THEN Completion ELSE @]
  /\ UNCHANGED <<tvars, chunker, handshake, classifier>>

\* send-scheduled lines 36-156, useFallback = true: the fallback provider with
\* its key, else the primary's key; a failure is rethrown
SchedulerFallback ==
  /\ router.fn = "scheduler" /\ router.pc = "fallback"
  /\ LET c == router.config
         apiKey == c.fallback_api_key \/ c.fallback_provider = "lovable" \/ c.api_key
     IN
       IF ~apiKey
         THEN router' = [router EXCEPT !.pc = "thrown", !.logged = @ \cup {ErrorMessage}]
         ELSE \E status \in Outcomes :
                router' = [router EXCEPT
                   !.calls = Append(@, ProviderCall("fallback", c.fallback_provider,
                                                    router.maxTokens, status)),
                   !.pc = IF status = 200 THEN "returned" ELSE "thrown",
                   !.logged = IF status = 200 THEN @ ELSE @ \cup {ErrorMessage},
                   !.response = IF status = 200 THEN Completion ELSE @]
  /\ UNCHANGED <<tvars, chunker, handshake, classifier>>

\* send-scheduled lines 299-339: the text is sent and stored with the row
SchedulerReply ==
  /\ router.fn = "scheduler" /\ router.pc = "returned"
  /\ router' = [router EXCEPT !.pc = "done", !.stored = router.response,
                              !.sent = router.response]
  /\ UNCHANGED <<tvars, chunker, handshake, classifier>>

\* send-scheduled lines 344-351: the exception is logged and the row marked failed
SchedulerFailed ==
  /\ router.fn = "scheduler" /\ router.pc = "thrown"
  /\ router' = [router EXCEPT !.pc = "done"]
  /\ UNCHANGED <<tvars, chunker, handshake, classifier>>

NextAI ==
  \/ WebhookFirstCall
  \/ WebhookRetry
  \/ WebhookReply
  \/ SchedulerFirstCall
  \/ SchedulerFallback
  \/ SchedulerReply
  \/ SchedulerFailed

SpecAI == InitAI /\ [][NextAI]_vars

(***************************************************************************)
(* splitWhatsAppMessage, lines 33-77.  A text is the sequence of its       *)
(* characters; indices of the String methods are 0-based as in the code.   *)
(***************************************************************************)
WHATSAPP_TEXT_LIMIT == 4096

\* the characters String.prototype.trim removes, of those the texts below use
Whitespace == {" ", "\n"}

\* String.prototype.slice(from, to): a negative index counts from the end, and
\* both are clamped to the string
slice(str, from, to) ==
  LET clamp(x) == IF x < 0 THEN (IF Len(str) + x < 0 THEN 0 ELSE Len(str) + x)
                  ELSE IF x > Len(str) THEN Len(str) ELSE x
  IN SubSeq(str, clamp(from) + 1, clamp(to))

\* String.prototype.trim
trim(str) ==
  LET leading == { i \in DOMAIN str : \A j \in 1..i : str[j] \in Whitespace }
      trailing == { i \in DOMAIN str : \A j \in i..Len(str) : str[j] \in Whitespace }
  IN SubSeq(str, Cardinality(leading) + 1, Len(str) - Cardinality(trailing))

\* the 0-based positions at which pattern occurs in str
Occurrences(str, pattern) ==
  { i \in 0..(Len(str) - Len(pattern)) : \A n \in DOMAIN pattern : str[i + n] = pattern[n] }

\* String.prototype.lastIndexOf, String.prototype.indexOf
lastIndexOf(str, pattern) ==
  LET found == Occurrences(str, pattern)
  IN IF found = {} THEN -1 ELSE CHOOSE i \in found : \A j \in found : j <= i

indexOf(str, pattern) ==
  LET found == Occurrences(str, pattern)
  IN IF found = {} THEN -1 ELSE CHOOSE i \in found : \A j \in found : i <= j

\* String.prototype.replace with a string pattern: the first occurrence only
replace(str, pattern, replacement) ==
  LET i == indexOf(str, pattern)
  IN IF i = -1 THEN str
     ELSE SubSeq(str, 1, i) \o replacement \o SubSeq(str, i + Len(pattern) + 1, Len(str))

\* the decimal digits of a number, as the template literal prints it
RECURSIVE Digits(_)
Digits(n) ==
  LET d == <<"0", "1", "2", "3", "4", "5", "6", "7", "8", "9">>[(n % 10) + 1]
  IN IF n < 10 THEN <<d>> ELSE Append(Digits(n \div 10), d)

\* Math.max of three indices
Max3(a, b, c) == IF a >= b /\ a >= c THEN a ELSE IF b >= c THEN b ELSE c

\* the hard cut without the room kept for the marker
HardCut_NoReserve(limit) == limit

\* the hard cut one character lower
HardCut_Reserve21(limit) == limit - 21

\* line 48: the hard cut, 20 characters below the limit
HardCut(limit) == limit - 20

\* lines 48-68: where the next segment is cut (x > limit / 2 is 2x > limit)
SplitAt(remaining, limit) ==
  LET chunk == slice(remaining, 0, HardCut(limit))
      paraBreak == lastIndexOf(chunk, <<"\n", "\n">>)
      sentenceBreak == Max3(lastIndexOf(chunk, <<".", " ">>),
                            lastIndexOf(chunk, <<"!", " ">>),
                            lastIndexOf(chunk, <<"?", " ">>))
      wordBreak == lastIndexOf(chunk, <<" ">>)
  IN IF 2 * paraBreak > limit THEN paraBreak
     ELSE IF 2 * sentenceBreak > limit THEN sentenceBreak + 1
     ELSE IF 2 * wordBreak > limit THEN wordBreak
     ELSE HardCut(limit)

\* line 70: `\n\n(${partNum}/...)`
PendingMarker(partNum) == <<"\n", "\n", "(">> \o Digits(partNum) \o <<"/", ".", ".", ".", ")">>

\* lines 42-73: the while loop
RECURSIVE Parts(_, _, _)
Parts(remaining, partNum, limit) ==
  IF Len(remaining) = 0 THEN <<>>
  ELSE IF Len(remaining) <= limit THEN <<remaining>>
  ELSE LET splitAt == SplitAt(remaining, limit)
       IN <<trim(slice(remaining, 0, splitAt)) \o PendingMarker(partNum)>>
            \o Parts(trim(slice(remaining, splitAt, Len(remaining))), partNum + 1, limit)

\* lines 35-77
splitWhatsAppMessage(text, limit) ==
  IF Len(text) <= limit THEN <<text>>
  ELSE LET parts == Parts(text, 1, limit)
           total == Len(parts)
       IN [i \in DOMAIN parts |->
             replace(parts[i], <<"(", ".", ".", ".", ")">>, <<"(">> \o Digits(total) \o <<")">>)]

\* n times the character c
Repeat(c, n) == [i \in 1..n |-> c]

\* replies of the provider: a run of letters, a separator, another run
Separators ==
  { <<>>, <<" ">>, <<".", " ">>, <<"?", " ">>, <<"\n", "\n">>, <<" ", "\n", " ">>,
    <<"(", ".", ".", ".", ")">> }

BeforeLengths == {0, 7, 2047, 2048, 2049, 4074, 4075, 4076}
AfterLengths == {0, 19, 20, 21, 4077}

Replies ==
  { Repeat("a", before) \o sep \o Repeat("b", after) :
      before \in BeforeLengths, sep \in Separators, after \in AfterLengths }

InitChunker ==
  /\ NoTables
  /\ chunker \in { [text |-> text, pc |-> "call", parts |-> <<>>] : text \in Replies }
  /\ router = Unused /\ handshake = Unused /\ classifier = Unused

\* line 547: const messageParts = splitWhatsAppMessage(aiResponse)
SplitReply ==
  /\ chunker.pc = "call"
  /\ chunker' = [chunker EXCEPT !.pc = "done",
                                !.parts = splitWhatsAppMessage(chunker.text, WHATSAPP_TEXT_LIMIT)]
  /\ UNCHANGED <<tvars, router, handshake, classifier>>

NextChunker == SplitReply

SpecChunker == InitChunker /\ [][NextChunker]_vars

(***************************************************************************)
(* splitWhatsAppMessage, one pass of its while loop at a time, for limits  *)
(* around the 20 characters the hard cut keeps free                        *)
(***************************************************************************)
MaxPasses == 48

Limits == {10, 19, 20, 21, 22, 30}

\* short texts: a run of letters, a separator, another run
ShortReplies ==
  { Repeat("a", before) \o sep \o Repeat("b", after) :
      before \in {0, 1, 6, 11, 16, 27}, sep \in Separators, after \in {0, 4, 12, 25} }

InitLoop ==
  /\ NoTables
  /\ chunker \in { [text |-> text, limit |-> limit, pc |-> "call", remaining |-> text,
                     partNum |-> 1, splitAt |-> 0, parts |-> <<>>] :
                     text \in ShortReplies, limit \in Limits }
  /\ router = Unused /\ handshake = Unused /\ classifier = Unused

\* line 36: a text that fits is returned as it is
Enter ==
  /\ chunker.pc = "call"
  /\ chunker' = IF Len(chunker.text) <= chunker.limit
                  THEN [chunker EXCEPT !.pc = "done", !.parts = <<chunker.text>>]
                  ELSE [chunker EXCEPT !.pc = "loop"]
  /\ UNCHANGED <<tvars, router, handshake, classifier>>

\* lines 42-72: one pass of while (remaining.length > 0)
Pass ==
  /\ chunker.pc = "loop"
  /\ chunker.partNum <= MaxPasses
  /\ chunker' =
       IF Len(chunker.remaining) = 0 THEN [chunker EXCEPT !.pc = "map"]
       ELSE IF Len(chunker.remaining) <= chunker.limit
         THEN [chunker EXCEPT !.pc = "map", !.parts = Append(@, chunker.remaining)]
       ELSE LET splitAt == SplitAt(chunker.remaining, chunker.limit) IN
            [chunker EXCEPT
               !.splitAt = splitAt,
               !.parts = Append(@, trim(slice(chunker.remaining, 0, splitAt))
                                     \o PendingMarker(chunker.partNum)),
               !.remaining = trim(slice(chunker.remaining, splitAt, Len(chunker.remaining))),
               !.partNum = @ + 1]
  /\ UNCHANGED <<tvars, router, handshake, classifier>>

\* lines 75-76: the total written into the markers
Finish ==
  /\ chunker.pc = "map"
  /\ chunker' =
       [chunker EXCEPT
          !.pc = "done",
          !.parts = [i \in DOMAIN chunker.parts |->
                       replace(chunker.parts[i], <<"(", ".", ".", ".", ")">>,
                               <<"(">> \o Digits(Len(chunker.parts)) \o <<")">>)]]
  /\ UNCHANGED <<tvars, router, handshake, classifier>>

NextLoop == Enter \/ Pass \/ Finish

SpecLoop == InitLoop /\ [][NextLoop]_vars

(***************************************************************************)
(* classifyTaskIntent called on its own, lines 472 and 714-752             *)
(***************************************************************************)
\* the words the messages below are made of: every keyword of the classifier,
\* words that hold one inside them, the two menu digits, and a neutral word
Vocabulary ==
  { "hello", "Subscribe", "subscribe", "unsubscribe", "STOP", "stop", "cancel", "sign",
    "up", "3", "1", "latest", "update", "updates", "news", "hotel", "restaurant",
    "weather", "current", "today", "now", "know", "search", "for", "find", "me", "where",
    "can", "i", "plan", "planet", "itinerary", "schedule", "create", "a", "trip",
    "roadmap", "step", "by", "calculate", "solve", "analyze", "compare", "why", "how",
    "explain", "detail" }

\* message texts: up to two words, the three-word phrases of the classifier,
\* and a question
Messages ==
  { <<>> } \cup { <<w>> : w \in Vocabulary }
    \cup { <<w1, w2>> : w1 \in Vocabulary, w2 \in Vocabulary }
    \cup { <<"where", "can", "i">>, <<"step", "by", "step">>, <<"create", "a", "trip">>,
           <<"create", "a", "roadmap">>, <<"explain", "why", "how">>,
           <<"Can", "you", "plan", "a", "3-day", "itinerary?">> }

\* conversationHistory: empty, or earlier turns
Histories == { <<>>, <<"unsubscribe">>, <<"weather", "plan">> }

InitClassify ==
  /\ NoTables
  /\ classifier \in { [message |-> m, history |-> h, pc |-> "call", intent |-> "NULL",
                         maxTokens |-> 0] :
                        m \in Messages, h \in Histories }
  /\ router = Unused /\ chunker = Unused /\ handshake = Unused

\* line 472: classifyTaskIntent(message_content, conversationHistory); the
\* function never reads its history parameter
Classify ==
  /\ classifier.pc = "call"
  /\ classifier' = [classifier EXCEPT !.pc = "done",
                                      !.intent = classifyTaskIntent(classifier.message)]
  /\ UNCHANGED <<tvars, router, chunker, handshake>>

\* the larger budget for planning only
MaxTokens_PlanningOnly(taskIntent) == IF taskIntent = "planning" THEN 800 ELSE 500

\* line 534
MaxTokens(taskIntent) == IF taskIntent = "planning" \/ taskIntent = "reasoning" THEN 800 ELSE 500

\* lines 481-536: the intents answered from the tables call no provider; the
\* others call it with the budget of their intent
ChooseBudget ==
  /\ classifier.pc = "done"
  /\ classifier' =
       [classifier EXCEPT
          !.pc = IF classifier.intent \in {"subscribe", "unsubscribe", "request_update"}
                   THEN "system" ELSE "provider",
          !.maxTokens = IF classifier.intent \in {"subscribe", "unsubscribe", "request_update"}
                          THEN 0 ELSE MaxTokens(classifier.intent)]
  /\ UNCHANGED <<tvars, router, chunker, handshake>>

NextClassify == Classify \/ ChooseBudget

SpecClassify == InitClassify /\ [][NextClassify]_vars

(***************************************************************************)
(* The GET handshake of the webhook, lines 600-619                         *)
(***************************************************************************)
\* searchParams.get of a missing parameter, Deno.env.get of an unset variable
Null == "<null>"
Undefined == "<undefined>"

\* values of hub.mode, hub.verify_token, hub.challenge and WHATSAPP_VERIFY_TOKEN
Modes == {Null, "subscribe", "unsubscribe", ""}
Tokens == {Null, "", "v1", "v2", "undefined"}
Challenges == {Null, "c1", "Forbidden"}
VerifyTokens == {Undefined, "", "v1"}

\* the response body: a literal of the code, or the request's challenge
Literal(text) == [from |-> "code", text |-> text]
Echo(challenge) == [from |-> "hub.challenge", text |-> IF challenge = Null THEN "" ELSE challenge]

\* the token test dropped
GetResponse_AnyToken(mode, token, challenge, verifyToken) ==
  IF mode = "subscribe"
    THEN [status |-> 200, body |-> Echo(challenge)]
    ELSE [status |-> 403, body |-> Literal("Forbidden")]

\* lines 603-614: mode === 'subscribe' && token === verifyToken
GetResponse(mode, token, challenge, verifyToken) ==
  IF mode = "subscribe" /\ token = verifyToken
    THEN [status |-> 200, body |-> Echo(challenge)]
    ELSE [status |-> 403, body |-> Literal("Forbidden")]

InitHandshake ==
  /\ NoTables
  /\ handshake \in { [mode |-> m, token |-> t, challenge |-> c, verifyToken |-> v,
                      status |-> 0, body |-> Literal("")] :
                        m \in Modes, t \in Tokens, c \in Challenges, v \in VerifyTokens }
  /\ router = Unused /\ chunker = Unused /\ classifier = Unused

\* lines 600-619
Get ==
  /\ handshake.status = 0
  /\ LET response == GetResponse(handshake.mode, handshake.token, handshake.challenge,
                                 handshake.verifyToken)
     IN handshake' = [handshake EXCEPT !.status = response.status, !.body = response.body]
  /\ UNCHANGED <<tvars, router, chunker, classifier>>

NextHandshake == Get

SpecHandshake == InitHandshake /\ [][NextHandshake]_vars

(***************************************************************************)
(* Scheduler properties                                                    *)
(***************************************************************************)
\* the steps of invocation k, recognised in a transition
FetchStep(k) == inv[k].pc = "idle" /\ inv'[k].pc # "idle"
MarkSentStep(k) == inv[k].pc = "sent_ok" /\ inv'[k].pc = "history"
MarkFailedStep(k) == inv[k].pc = "catch" /\ inv'[k].pc = "loop"
SendStep(k) == inv[k].pc = "send" /\ inv'[k].pc # "send"

\* ids of the rows invocation k has fetched
Batch(k) == { inv[k].pendingMessages[j].id : j \in DOMAIN inv[k].pendingMessages }

\* the recurrence table of the design: hours from one run to the next
Period(row) ==
  CASE row.recurrence_type = "daily" -> 24
    [] row.recurrence_type = "weekly" -> 7 * 24
    [] row.recurrence_type = "every_x_hours" -> row.recurrence_interval
    [] row.recurrence_type = "every_x_days" -> row.recurrence_interval * 24
    [] row.recurrence_type = "date_range" -> 24
    [] OTHER -> 0

\* C2: each due pending row is claimed by exactly one invocation and handed to
\* the outbound transport at most once (rows have one due occurrence here, since
\* no row ever returns to pending).
C2_DispatchedAtMostOnce ==
  \A r \in Rows : Cardinality({ e \in outbox : e.row = r }) <= 1

\* C6: every status change of a row is pending -> processing, processing -> sent,
\* processing -> failed, or (recurring, not expired) processing -> pending; no row
\* leaves sent or failed.
C6_Allowed(row) ==
  { <<"pending", "processing">>, <<"processing", "sent">>, <<"processing", "failed">> }
    \cup (IF row.recurrence_type # "once" THEN { <<"processing", "pending">> } ELSE {})

C6_StatusTransitions ==
  [][\A r \in Rows :
       scheduled_messages'[r].status # scheduled_messages[r].status
         => <<scheduled_messages[r].status, scheduled_messages'[r].status>>
              \in C6_Allowed(scheduled_messages[r])]_vars

\* C7: after a successful dispatch of a daily, weekly, every-n-hours or
\* every-n-days schedule the row is pending again with
\* next_run_at = previous scheduled instant + period.
C7_RecurringRescheduled ==
  [][\A k \in Invs :
       (MarkSentStep(k)
          /\ Msg(k).recurrence_type \in {"daily", "weekly", "every_x_hours", "every_x_days"})
         => /\ scheduled_messages'[Msg(k).id].status = "pending"
            /\ scheduled_messages'[Msg(k).id].next_run_at
                 = Msg(k).scheduled_for + Period(Msg(k))]_vars

\* C8: after a successful dispatch of a once schedule the row is sent with
\* sent_at the time of the update and next_run_at unchanged; no invocation
\* fetches the row afterwards, and none hands it to the transport again.
C8_OnceTerminal ==
  /\ [][\A k \in Invs :
          (MarkSentStep(k) /\ Msg(k).recurrence_type = "once")
            => /\ scheduled_messages'[Msg(k).id].status = "sent"
               /\ scheduled_messages'[Msg(k).id].sent_at = clock'
               /\ scheduled_messages'[Msg(k).id].next_run_at
                    = scheduled_messages[Msg(k).id].next_run_at]_vars
  /\ [][\A k \in Invs : \A r \in Rows :
          (FetchStep(k) /\ scheduled_messages[r].recurrence_type = "once"
             /\ scheduled_messages[r].sent_at # NoTime)
            => \A j \in DOMAIN inv'[k].pendingMessages : inv'[k].pendingMessages[j].id # r]_vars
  /\ [](\A k \in Invs : \A j \in DOMAIN inv[k].pendingMessages :
          inv[k].pendingMessages[j].recurrence_type = "once"
            => inv[k].pendingMessages[j].sent_at = NoTime)
  /\ [][\A k \in Invs :
          (SendStep(k) /\ Msg(k).recurrence_type = "once")
            => scheduled_messages[Msg(k).id].sent_at = NoTime]_vars

\* C9: a date_range schedule is rescheduled to previous + 24h while that is not
\* after its end date, and ends in a terminal status otherwise.
C9_DateRange ==
  [][\A k \in Invs :
       (MarkSentStep(k) /\ Msg(k).recurrence_type = "date_range")
         => IF Msg(k).scheduled_for + Period(Msg(k)) <= Msg(k).recurrence_end_date
              THEN /\ scheduled_messages'[Msg(k).id].status = "pending"
                   /\ scheduled_messages'[Msg(k).id].next_run_at
                        = Msg(k).scheduled_for + Period(Msg(k))
              ELSE scheduled_messages'[Msg(k).id].status \in {"sent", "failed"}]_vars

\* C10: an invocation holds, dispatches and modifies only rows that were pending
\* and due when it fetched; a failed dispatch leaves the row failed; a failed row
\* is in no batch fetched afterwards and is never handed to the transport
\* again, and no batch holds a row twice.
C10_OnlyDuePendingNoRetry ==
  /\ [](\A k \in Invs : \A j \in DOMAIN inv[k].pendingMessages :
          /\ inv[k].pendingMessages[j].status = "pending"
          /\ inv[k].pendingMessages[j].scheduled_for <= inv[k].now
          /\ \A j2 \in DOMAIN inv[k].pendingMessages :
               j2 # j => inv[k].pendingMessages[j2].id # inv[k].pendingMessages[j].id)
  /\ [](\A e \in outbox : e.row \in Batch(e.inv))
  /\ [][\A r \in Rows :
          scheduled_messages'[r] # scheduled_messages[r]
            => \E k \in Invs : inv[k].pc \notin {"idle", "done"} /\ r \in Batch(k)]_vars
  /\ [][\A k \in Invs :
          MarkFailedStep(k) => scheduled_messages'[Msg(k).id].status = "failed"]_vars
  /\ [][\A k \in Invs : \A r \in Rows :
          (FetchStep(k) /\ scheduled_messages[r].status = "failed")
            => \A j \in DOMAIN inv'[k].pendingMessages : inv'[k].pendingMessages[j].id # r]_vars
  /\ [][\A k \in Invs :
          SendStep(k)
            => ~\E e \in outbox :
                  e.row = Msg(k).id /\ ~e.ok /\ inv[e.inv].pc # "catch"]_vars

(***************************************************************************)
(* Webhook properties                                                      *)
(***************************************************************************)
MessageIds == { Payload(raw).id : raw \in RawBodies } \ {""}

\* the deliveries that have been answered
Answered == { d \in Deliveries : req[d].status # 0 }

\* the header the gateway sends: "sha256=" followed by the hex HMAC and nothing else
WellSigned(d) == req[d].signature = <<Sep, Hmac(env.appSecret, req[d].body)>>

\* task d has made no store write, provider call or send
Untouched(d) ==
  /\ task[d].pc = "none"
  /\ d \notin ai_calls
  /\ \A m \in whatsapp_messages : m.by[2] # d
  /\ \A e \in wa_out : e.task # d

\* C1: however many times a message id is delivered, the store (answering
\* every statement) holds one user-turn row for it and one reply is made and
\* sent for it.
C1_OneTurnOneReply ==
  \A id \in MessageIds :
    storeUp =>
    /\ Cardinality({ m \in whatsapp_messages :
                       m.sender = "user" /\ m.message_id = id }) <= 1
    /\ Cardinality({ d \in Answered :
                       In(d).id = id /\ \E e \in wa_out : e.task = d }) <= 1

\* C3: with the app secret configured, a delivery whose header is missing, lacks
\* the sha256= prefix or is not the hex HMAC of the body is answered 401 and
\* nothing is processed for it.
C3_BadSignatureRejected ==
  \A d \in Answered :
    (env.appSecret # NoSecret /\ ~WellSigned(d))
      => req[d].status = 401 /\ Untouched(d)

\* C4: a delivery whose signature verifies is answered 200; the only statuses
\* are 200 and 401, 401 only for a signature that does not verify; and the answer
\* given does not change, whatever the background task does afterwards.
C4_AlwaysAcknowledged ==
  /\ [](\A d \in Answered :
          /\ req[d].status \in {200, 401}
          /\ (env.appSecret # NoSecret
                /\ verifyWebhookSignature(req[d].body, req[d].signature, env.appSecret))
               => req[d].status = 200
          /\ req[d].status = 401
               => /\ env.appSecret # NoSecret
                  /\ ~verifyWebhookSignature(req[d].body, req[d].signature, env.appSecret))
  /\ [][\A d \in Answered : req'[d] = req[d]]_vars

\* a verified delivery has its 200 while its task is still at work against a
\* failing store
C4_Witness ==
  \E d \in Answered :
    /\ req[d].status = 200
    /\ env.appSecret # NoSecret
    /\ verifyWebhookSignature(req[d].body, req[d].signature, env.appSecret)
    /\ task[d].pc \in {"insert", "handle", "send"}
    /\ ~storeUp

\* C5: a verified delivery that is no duplicate and names its sender gets at
\* least one outbound send by the time its task has ended.
C5_NeverSilent ==
  \A d \in Answered :
    ( /\ env.appSecret # NoSecret /\ env.configured
      /\ verifyWebhookSignature(req[d].body, req[d].signature, env.appSecret)
      /\ In(d).json /\ In(d).from # ""
      /\ ~task[d].dup
      /\ task[d].pc = "done" )
      => \E e \in wa_out : e.task = d /\ e.to = In(d).from

(***************************************************************************)
(* Provider call properties                                                *)
(***************************************************************************)
\* the request is over (reply made, or the scheduled row marked failed)
Finished == router.pc = "done"

\* the outcomes the design calls transient: rate-limited, overloaded, gateway
\* timeout, and the call's own timeout
TransientOutcomes == {429, 503, 504, Aborted}

PrimaryCalls == { j \in DOMAIN router.calls : router.calls[j].target = "primary" }
FallbackCalls == { j \in DOMAIN router.calls : router.calls[j].target = "fallback" }

\* the first call failed transiently and no call to the primary provider succeeded
PrimaryFailedTransiently ==
  /\ router.calls # <<>>
  /\ router.calls[1].status \in TransientOutcomes
  /\ \A j \in PrimaryCalls : router.calls[j].status # 200

\* a fallback provider is configured and has a credential to call it with
FallbackUsable ==
  /\ router.config.fallback_provider # NoProvider
  /\ router.config.fallback_api_key \/ router.config.fallback_provider = "lovable"

\* C11: a request (reactive or scheduled) whose primary provider failed
\* transiently, with a fallback configured, makes exactly one fallback call, and
\* that call is the last provider call of the request.
C11_ExactlyOneFallback ==
  (Finished /\ PrimaryFailedTransiently /\ FallbackUsable)
    => /\ Cardinality(FallbackCalls) = 1
       /\ router.calls[Len(router.calls)].target = "fallback"

\* C12: a request whose first call failed transiently (429, 503, 504 or a
\* timeout) makes exactly one retry to the same provider with a smaller token
\* budget, as its second call, whichever provider is configured.
C12_OneReducedRetry ==
  (Finished /\ router.calls # <<>> /\ router.calls[1].status \in TransientOutcomes)
    => /\ Cardinality(PrimaryCalls) = 2
       /\ router.calls[2].target = "primary"
       /\ router.calls[2].provider = router.calls[1].provider
       /\ router.calls[2].max_tokens < router.calls[1].max_tokens

\* the fixed apologies
Apologies ==
  {KeyNotConfigured, RateLimited, CreditsExhausted, InvalidKey, TimedOut, GenericError}

\* the request made no provider call that succeeded
ProviderFailed ==
  router.calls = <<>> \/ router.calls[Len(router.calls)].status # 200

EndsWith(str, suffix) ==
  /\ Len(suffix) <= Len(str)
  /\ SubSeq(str, Len(str) - Len(suffix) + 1, Len(str)) = suffix

\* the position marker "(i/total)"
PositionMarker(i, total) == <<"(">> \o Digits(i) \o <<"/">> \o Digits(total) \o <<")">>

\* a segment without its trailing marker, complete or still pending, and the
\* blank line in front of it
Body(segment, i, total) ==
  LET complete == <<"\n", "\n">> \o PositionMarker(i, total) IN
  IF EndsWith(segment, complete)
    THEN SubSeq(segment, 1, Len(segment) - Len(complete))
  ELSE IF EndsWith(segment, PendingMarker(i))
    THEN SubSeq(segment, 1, Len(segment) - Len(PendingMarker(i)))
  ELSE segment

RECURSIVE Bodies(_, _)
Bodies(parts, i) ==
  IF i > Len(parts) THEN <<>>
  ELSE Body(parts[i], i, Len(parts)) \o Bodies(parts, i + 1)

\* C14: the bodies of the segments, markers stripped, concatenated in order are
\* the original text.
C14_RoundTrip ==
  chunker.pc = "done" => Bodies(chunker.parts, 1) = chunker.text

C16_EverySegmentMarked ==
  (chunker.pc = "done" /\ Len(chunker.parts) > 1)
    => \A i \in DOMAIN chunker.parts :
         EndsWith(chunker.parts[i], PositionMarker(i, Len(chunker.parts)))

(***************************************************************************)
(* Classifier properties                                                   *)
(***************************************************************************)
\* the order in which the intents are tried
IntentOrder ==
  <<"subscribe", "unsubscribe", "request_update", "web_search", "planning", "reasoning">>

\* the keywords of an intent: substrings of the lowercased text, the menu digit
\* as the whole text
KeywordsMatch(intent, lower) ==
  LET has(w) == includes(lower, <<w>>)
      phrase(p) == includes(lower, p)
  IN CASE intent = "subscribe" ->
            has("subscribe") \/ phrase(<<"sign", "up">>) \/ lower = <<"3">>
       [] intent = "unsubscribe" -> has("unsubscribe") \/ has("stop") \/ has("cancel")
       [] intent = "request_update" ->
            has("latest") \/ has("update") \/ has("news") \/ lower = <<"1">>
       [] intent = "web_search" ->
            \/ \E w \in {"hotel", "restaurant", "weather", "current", "today", "now"} : has(w)
            \/ \E p \in {<<"search", "for">>, <<"find", "me">>, <<"where", "can", "i">>} :
                 phrase(p)
       [] intent = "planning" ->
            \/ \E w \in {"plan", "itinerary", "schedule"} : has(w)
            \/ phrase(<<"create", "a">>) /\ (has("trip") \/ has("roadmap"))
            \/ phrase(<<"step", "by", "step">>)
       [] intent = "reasoning" ->
            \/ \E w \in {"calculate", "solve", "analyze", "compare"} : has(w)
            \/ has("why") /\ has("how")
            \/ has("explain") /\ has("detail")

\* C17: the intent returned is the first of subscribe, unsubscribe,
\* request_update, web_search, planning, reasoning whose keywords match the
\* lowercased text, general_question when none does: a function of the text
\* alone, so a text with "subscribe" and "weather" is subscribe.
C17_FirstMatchingIntent ==
  classifier.pc = "done"
    => LET lower == toLowerCase(classifier.message)
           hits == { j \in DOMAIN IntentOrder : KeywordsMatch(IntentOrder[j], lower) }
       IN /\ classifier.intent =
               IF hits = {} THEN "general_question"
               ELSE IntentOrder[CHOOSE j \in hits : \A j2 \in hits : j <= j2]
          /\ (includes(lower, <<"subscribe">>) /\ includes(lower, <<"weather">>))
               => classifier.intent = "subscribe"

\* a text with an administrative and a domain keyword, classified with a history
C17_Witness ==
  /\ classifier.pc = "done"
  /\ classifier.message = <<"weather", "Subscribe">>
  /\ classifier.history # <<>>
  /\ classifier.intent = "subscribe"

(***************************************************************************)
(* Handshake properties                                                    *)
(***************************************************************************)
\* C19: a GET with mode subscribe and the configured verify token is answered
\* 200 with the challenge as body; any other GET is answered 403 with a body
\* that is not the challenge; with no token configured every GET is answered 403.
C19_HandshakeEchoesOrRejects ==
  handshake.status # 0
    => /\ IF /\ handshake.mode = "subscribe"
              /\ handshake.verifyToken # Undefined
              /\ handshake.token # Null
              /\ handshake.token = handshake.verifyToken
            THEN /\ handshake.status = 200
                 /\ handshake.body = Echo(handshake.challenge)
            ELSE /\ handshake.status = 403
                 /\ handshake.body.from # "hub.challenge"
       /\ handshake.verifyToken = Undefined => handshake.status = 403

\* the gateway's handshake was accepted and its challenge returned
C19_Witness ==
  /\ handshake.status = 200
  /\ handshake.token = "v1"
  /\ handshake.challenge = "c1"
  /\ handshake.body.text = "c1"

(***************************************************************************)
(* Usage counter and configuration properties                              *)
(***************************************************************************)
\* the trackUsage calls invocation k has completed: one for every AI row it has
\* handed to the transport or is about to
RecordedBy(k) ==
  Cardinality({ j \in DOMAIN inv[k].pendingMessages :
                  /\ inv[k].pendingMessages[j].task_prompt
                  /\ \/ \E e \in outbox :
                          e.inv = k /\ e.row = inv[k].pendingMessages[j].id
                     \/ j = inv[k].i /\ inv[k].pc = "send" })

RECURSIVE TotalRecorded(_)
TotalRecorded(K) ==
  IF K = {} THEN 0
  ELSE LET k == CHOOSE x \in K : TRUE IN RecordedBy(k) + TotalRecorded(K \ {k})

\* C18: the one counter row of the (provider, model, date) key holds the number
\* of recordings made for it, whatever the interleaving (no row while none was
\* made).
C18_NoLostIncrement ==
  ai_usage = TotalRecorded(Invs)

\* a required configuration value is missing
ConfigurationMissing == env.appSecret = NoSecret \/ ~env.configured

\* C20: with a required configuration value missing no step of an invocation
\* writes to the store, calls a provider or calls the outbound transport.
C20_NoSideEffectWithoutConfiguration ==
  [][ConfigurationMissing
       => UNCHANGED <<scheduled_messages, whatsapp_messages, ai_usage, subscriptions,
                      outbox, wa_out, ai_calls>>]_vars

(***************************************************************************)
(* Batch properties                                                        *)
(***************************************************************************)
\* invocation k has answered after a loop over the rows it fetched
Returned(k) == inv[k].pc = "done" /\ inv[k].pendingMessages # <<>>

\* the calls of invocation k that concern row r, in order
CallsFor(k, r) == SelectSeq(inv[k].calls, LAMBDA c : c[2] = r)

\* the names of those calls
Names(calls) == [n \in DOMAIN calls |-> calls[n][1]]

\* C21: when an invocation that claimed rows returns, it answers 200 with the
\* number of rows it sent, it processed every claimed row, no claimed row is
\* left in processing, and every row whose processing failed has status failed.
C21_FailureIsRowStatus ==
  \A k \in DOMAIN inv :
    Returned(k) =>
      /\ inv[k].response = 200
      /\ inv[k].processed = Cardinality({ e \in outbox : e.inv = k /\ e.ok })
      /\ \A r \in Batch(k) :
           /\ CallsFor(k, r) # <<>>
           /\ scheduled_messages[r].status # "processing"
           /\ (\E n \in DOMAIN inv[k].calls : inv[k].calls[n] = <<"failed", r>>)
                => scheduled_messages[r].status = "failed"

\* C22: every text the scheduler hands to the outbound transport is at most
\* 4096 characters long.
C22_SendsWithinCeiling ==
  \A e \in outbox : Length(e.text) <= WHATSAPP_TEXT_LIMIT

\* C23: a claimed row's processing calls the provider if and only if the row
\* carries a task prompt, after the claim and before the send; what is sent is
\* the response of that call, not the row's message_content or stored
\* ai_response; a row without task prompt sends its message_content and never
\* calls the provider.
C23_ProviderIffTaskPrompt ==
  \A k \in DOMAIN inv : \A j \in DOMAIN inv[k].pendingMessages :
    LET msg == inv[k].pendingMessages[j]
        names == Names(CallsFor(k, msg.id))
        sent == { e \in outbox : e.inv = k /\ e.row = msg.id }
    IN
    /\ names # <<>> => names[1] = "processing"
    /\ IF msg.task_prompt
         THEN /\ Len(names) >= 2 => names[2] = "ai"
              /\ \A n \in DOMAIN names : names[n] = "send" => n = 3
              /\ \A e \in sent :
                   e.text \in Generated \ {msg.message_content, msg.ai_response}
         ELSE /\ \A n \in DOMAIN names : names[n] # "ai"
              /\ \A n \in DOMAIN names : names[n] = "send" => n = 2
              /\ \A e \in sent : e.text = msg.message_content

\* one invocation has sent a generated text for a task row and the fixed
\* content of a row without task prompt
C23_Witness ==
  \E k \in DOMAIN inv : \E e1, e2 \in outbox :
    /\ e1.inv = k /\ e2.inv = k
    /\ \E j \in DOMAIN inv[k].pendingMessages :
         /\ inv[k].pendingMessages[j].id = e1.row
         /\ inv[k].pendingMessages[j].task_prompt
         /\ e1.text \in Generated
    /\ \E j \in DOMAIN inv[k].pendingMessages :
         /\ inv[k].pendingMessages[j].id = e2.row
         /\ ~inv[k].pendingMessages[j].task_prompt
         /\ e2.text = inv[k].pendingMessages[j].message_content

\* the rows invocation k has started on and whose status write (sent or failed)
\* has not returned yet
InFlight(k) ==
  { r \in Batch(k) :
      /\ \E n \in DOMAIN inv[k].calls : inv[k].calls[n][2] = r
      /\ ~\E n \in DOMAIN inv[k].calls :
            inv[k].calls[n][2] = r /\ inv[k].calls[n][1] \in {"sent", "failed"} }

HistoryOf(k, r) == { m \in whatsapp_messages : m.by = <<"scheduler", k, r>> }

\* invocation k is through with row r
Through(k, r) ==
  \E j \in DOMAIN inv[k].pendingMessages :
    inv[k].pendingMessages[j].id = r /\ (j < inv[k].i \/ inv[k].pc = "done")

\* C30: the scheduler stores an assistant row for a schedule row if and only if
\* the send succeeded: one row for each successful send, stored only once the
\* schedule row has been set to sent, and none when the provider or the
\* transport failed.
C30_HistoryIffSent ==
  \A k \in DOMAIN inv : \A r \in Batch(k) :
    LET succeeded == \E e \in outbox : e.inv = k /\ e.row = r /\ e.ok IN
    /\ HistoryOf(k, r) # {} => succeeded /\ scheduled_messages[r].status = "sent"
    /\ Through(k, r) /\ succeeded => Cardinality(HistoryOf(k, r)) = 1
    /\ Through(k, r) /\ ~succeeded => HistoryOf(k, r) = {}

PartsSent(d) == { o.part : o \in { x \in wa_out : x.task = d } }

\* C26: the parts of a reply go to the outbound transport in index order, one
\* at a time: part i is sent only when the parts before it have been sent,
\* their calls have returned and a pause has been awaited after each of them.
C26_PartsInOrderWithDelay ==
  \A d \in Deliveries :
    LET n == Cardinality(PartsSent(d)) IN
    /\ PartsSent(d) = 0..(n - 1)
    /\ n <= PartsOf(task[d].aiResponse) \/ n = 0
    /\ task[d].pc = "send" => task[d].i = n /\ task[d].delays = n
    /\ task[d].pc = "delay" => task[d].i = n /\ task[d].delays = n - 1
    /\ task[d].pc = "done" /\ n > 0 => task[d].delays = n - 1

\* a reply of two parts has been sent, the pause between them awaited
C26_Witness ==
  \E d \in Deliveries :
    /\ task[d].pc = "done"
    /\ PartsSent(d) = {0, 1}
    /\ task[d].delays = 1

\* C27: the first provider call of a reply is given 800 tokens when the text
\* was classified planning or reasoning and 500 for web_search and
\* general_question; "Can you plan a 3-day itinerary?" is planning and gets 800.
C27_BudgetByIntent ==
  /\ classifier.pc = "provider" =>
       /\ classifier.intent \in {"planning", "reasoning"} => classifier.maxTokens = 800
       /\ classifier.intent \in {"web_search", "general_question"} => classifier.maxTokens = 500
       /\ classifier.intent \in {"planning", "reasoning", "web_search", "general_question"}
  /\ classifier.pc \in {"provider", "system"}
       /\ classifier.message = <<"Can", "you", "plan", "a", "3-day", "itinerary?">>
       => classifier.intent = "planning" /\ classifier.maxTokens = 800

\* the itinerary question has been given its budget
C27_Witness ==
  /\ classifier.pc = "provider"
  /\ classifier.message = <<"Can", "you", "plan", "a", "3-day", "itinerary?">>
  /\ classifier.maxTokens = 800

\* the words of the text task d is answering
Words(d) == { In(d).text[j] : j \in DOMAIN In(d).text }

\* task d has handled its intent
Handled(d) == task[d].pc \in {"complete", "store", "send", "delay", "done"} /\ task[d].intent # "NULL"

\* C28: a text is classified unsubscribe only when it has "stop" or "cancel" and
\* has neither "subscribe" nor "sign up" in it and is not "3"; a text with the
\* word "unsubscribe" is classified subscribe, and its handling activates the
\* sender's subscription.
C28_UnsubscribeWordSubscribes ==
  /\ \A d \in Deliveries :
       task[d].intent # "NULL" =>
         /\ task[d].intent = "unsubscribe" =>
              /\ Words(d) \cap {"stop", "STOP", "cancel"} # {}
              /\ Words(d) \cap {"subscribe", "Subscribe", "unsubscribe"} = {}
              /\ In(d).text # <<"3">>
              /\ ~\E j \in DOMAIN In(d).text :
                    In(d).text[j] = "sign" /\ j < Len(In(d).text) /\ In(d).text[j + 1] = "up"
         /\ "unsubscribe" \in Words(d) =>
              /\ task[d].intent = "subscribe"
              /\ Handled(d) =>
                   task[d].aiResponse = IF storeUp THEN "subscribed" ELSE "subscription failed"
  /\ (\E d \in Deliveries : Handled(d) /\ task[d].aiResponse = "subscribed")
       /\ (\A d \in Deliveries : Handled(d) => task[d].aiResponse # "unsubscribed")
       => subscriptions = "active"

\* the text "unsubscribe" has been answered with the subscription activated
C28_Witness ==
  \E d \in Deliveries :
    /\ Handled(d)
    /\ In(d).text = <<"unsubscribe">>
    /\ task[d].aiResponse = "subscribed"
    /\ subscriptions = "active"

(***************************************************************************)
(* Chunker loop properties                                                 *)
(***************************************************************************)
\* a pass of the loop that cut a part off
CutStep == chunker.pc = "loop" /\ chunker'.partNum = chunker.partNum + 1

\* C29: with a limit above 20 every pass cuts at a position of at least 1 and
\* leaves a shorter text, so the loop ends; with a limit of 20 or less the cut
\* position is not positive.
C29_CutPositionByLimit ==
  [][CutStep =>
       IF chunker.limit > 20
         THEN /\ chunker'.splitAt >= 1
              /\ Len(chunker'.remaining) < Len(chunker.remaining)
         ELSE chunker'.splitAt <= 0]_vars

\* C29 as amended: with a limit above 20 every pass cuts at a position of at
\* least 1 and leaves a shorter text, and the passes made and the characters
\* left never exceed the length of the text; with a limit of 20 or less the
\* hard cut is not positive, and a pass cuts at a positive position only at a
\* break beyond half the limit; with the limit 20 every pass cuts at 0 and
\* leaves the text as it was, but for the trimming.
C29_TerminatesAbove20 ==
  /\ [][CutStep =>
          /\ chunker.limit > 20 =>
               /\ chunker'.splitAt >= 1
               /\ Len(chunker'.remaining) < Len(chunker.remaining)
          /\ chunker.limit <= 20 =>
               /\ chunker.limit - 20 <= 0
               /\ chunker'.splitAt > 0 =>
                    /\ 2 * chunker'.splitAt > chunker.limit
                    /\ chunker.remaining[chunker'.splitAt] \in {".", "!", "?"}
                         \/ chunker.remaining[chunker'.splitAt + 1] \in Whitespace
          /\ chunker.limit = 20 =>
               /\ chunker'.splitAt = 0
               /\ chunker'.remaining = trim(chunker.remaining)]_vars
  /\ [](chunker.limit > 20 /\ chunker.pc = "loop" =>
          /\ (chunker.partNum - 1) + Len(chunker.remaining) <= Len(chunker.text)
          /\ chunker.partNum <= MaxPasses)

\* a text has been split in three or more passes with the smallest limit that
\* leaves room to cut
C29_Witness ==
  /\ chunker.pc = "done"
  /\ chunker.limit = 21
  /\ Len(chunker.parts) >= 4

\* with the limit 20 a pass has left the text as it was
C29_NoProgress ==
  /\ chunker.limit = 20
  /\ chunker.pc = "loop"
  /\ chunker.partNum > 2
  /\ chunker.remaining = chunker.text

====
